---------------------------- MODULE Spec2Model ----------------------------
(***************************************************************************)
(* The crawl-and-extract pipeline of article-scraper, in its two variants: *)
(*   "main" : src/main.js            (one Page opened and closed per URL)  *)
(*   "part" : src/unnamed/part_000   (a single Page reused for all URLs)   *)
(* Strings are sequences of one-character strings, so that endsWith, the   *)
(* regular expressions, trim and length are computed as the code does.     *)
(***************************************************************************)
EXTENDS Integers, Sequences, FiniteSets, TLC

VARIABLES
    variant,      \* which program runs: "main" or "part"
    source,       \* url.list: the sequence of its raw lines
    prior,        \* the output file's lines when the run started
    file,         \* digital_marketing_corpus.jsonl: the sequence of its lines
    pc,           \* position of the main async function / scrapeUrl
    browser,      \* "none", "open" or "closed"
    page,         \* the Page handle in use (see NoPage)
    TARGET_URLS,  \* main.js: the list loadTargetUrls returned
    pos,          \* number of items taken from TARGET_URLS / lines read from rl
    url,          \* the url / cleanUrl of the current iteration
    html,         \* scrapeUrl's local html
    article,      \* scrapeUrl's local article
    data,         \* the value scrapeUrl returns to the loop
    console,      \* lines written to the console since the current url was taken
    calls,        \* Page / browser methods called since the current url was taken
    error,        \* the exception being handled or propagating, "none" if none
    request,      \* the last sub-resource request of the navigation in flight
    nreq,         \* number of sub-resource requests of the navigation in flight
    outcomes,     \* terminal outcome of every url processed so far, in order
    clock         \* wall clock, in pacer delays

vars == << variant, source, prior, file, pc, browser, page, TARGET_URLS, pos,
           url, html, article, data, console, calls, error, request, nreq,
           outcomes, clock >>

---------------------------------------------------------------------------
(* Bounds of the model *)

\* most lines of url.list in a run of the pipeline
MaxLines == 2
\* longest whitespace/letter piece placed at the start, middle and end of a text
MaxPiece == 2
\* most sub-resource requests one navigation issues
MaxRequests == 2

---------------------------------------------------------------------------
(* Strings *)

SPACE == " "
TAB == "\t"
NL == "\n"

\* the characters /\s/ matches and String.prototype.trim strips
WhiteSpace == {SPACE, TAB, NL}

RECURSIVE TrimStart(_)
TrimStart(s) ==
    IF s # <<>> /\ Head(s) \in WhiteSpace THEN TrimStart(Tail(s)) ELSE s

RECURSIVE TrimEnd(_)
TrimEnd(s) ==
    IF s # <<>> /\ s[Len(s)] \in WhiteSpace
    THEN TrimEnd(SubSeq(s, 1, Len(s) - 1))
    ELSE s

\* String.prototype.trim
Trim(s) == TrimEnd(TrimStart(s))

\* String.prototype.endsWith
EndsWith(s, suffix) ==
    /\ Len(suffix) <= Len(s)
    /\ SubSeq(s, Len(s) - Len(suffix) + 1, Len(s)) = suffix

UpperLetters == <<"P", "N", "G", "J", "E", "S", "V", "I", "F", "D">>
LowerLetters == <<"p", "n", "g", "j", "e", "s", "v", "i", "f", "d">>

\* the case folding of the regular expression's i flag, on one character
FoldChar(c) ==
    IF \E i \in DOMAIN UpperLetters : UpperLetters[i] = c
    THEN LowerLetters[CHOOSE i \in DOMAIN UpperLetters : UpperLetters[i] = c]
    ELSE c

FoldCase(s) == [i \in DOMAIN s |-> FoldChar(s[i])]

SLASH == "/"

Ext_png == <<".", "p", "n", "g">>
Ext_jpg == <<".", "j", "p", "g">>
Ext_jpeg == <<".", "j", "p", "e", "g">>
Ext_svg == <<".", "s", "v", "g">>
Ext_gif == <<".", "g", "i", "f">>
Ext_pdf == <<".", "p", "d", "f">>


---------------------------------------------------------------------------
(* URL Filter *)

\* main.js: url.length < 3
MinUrlLength_main == 3
\* part_000: url.length < 5
MinUrlLength_part == 5

\* main.js: the endsWith tests of scrapeUrl, in the order of the code
SkipReason_main(u) ==
    IF \/ EndsWith(u, Ext_png) \/ EndsWith(u, Ext_png \o <<SLASH>>)
       \/ EndsWith(u, Ext_jpg) \/ EndsWith(u, Ext_jpg \o <<SLASH>>)
       \/ EndsWith(u, Ext_svg) \/ EndsWith(u, Ext_svg \o <<SLASH>>)
       \/ EndsWith(u, Ext_jpeg) \/ EndsWith(u, Ext_jpeg \o <<SLASH>>)
    THEN "image"
    ELSE IF EndsWith(u, Ext_gif) \/ EndsWith(u, Ext_gif \o <<SLASH>>)
    THEN "image"
    ELSE IF EndsWith(u, Ext_pdf) \/ EndsWith(u, Ext_pdf \o <<SLASH>>)
    THEN "pdf"
    ELSE IF Len(u) < MinUrlLength_main
    THEN "too-short"
    ELSE "none"

\* part_000: /\.(png|jpg|jpeg|svg|gif|pdf)(\/)?$/i.test(url)
MediaRegexTest(u) ==
    \E e \in {Ext_png, Ext_jpg, Ext_jpeg, Ext_svg, Ext_gif, Ext_pdf} :
        \/ EndsWith(FoldCase(u), e)
        \/ EndsWith(FoldCase(u), e \o <<SLASH>>)

\* part_000 without the length test of its first early return
SkipReason_part_noLength(u) == IF MediaRegexTest(u) THEN "media" ELSE "none"

\* part_000: the two early returns of scrapeUrl
SkipReason_part(u) ==
    IF u = <<>> \/ Len(u) < MinUrlLength_part
    THEN "too-short"
    ELSE IF MediaRegexTest(u)
    THEN "media"
    ELSE "none"

---------------------------------------------------------------------------
(* Record Normalizer *)

\* textContent.replace(/\s+/g, ' '): every maximal run of whitespace becomes
\* one space, that is: the first character of a run becomes a space and
\* the other characters of the run are dropped
RunStart(s, i) == s[i] \notin WhiteSpace \/ i = 1 \/ s[i - 1] \notin WhiteSpace

Kept(m) == m.start

CollapseWhitespace(s) ==
    LET marked == [i \in DOMAIN s |->
                     [ c |-> IF s[i] \in WhiteSpace THEN SPACE ELSE s[i],
                       start |-> RunStart(s, i) ]]
        kept == SelectSeq(marked, Kept)
    IN  [i \in DOMAIN kept |-> kept[i].c]

IsNoSpace(c) == c # SPACE

\* the normalization without the final trim()
NormalizeContent_noTrim(s) == CollapseWhitespace(s)

\* the normalization with every whitespace run deleted instead of replaced
NormalizeContent_dropRuns(s) == Trim(SelectSeq(CollapseWhitespace(s), IsNoSpace))

\* article.textContent.replace(/\s+/g, ' ').trim()
NormalizeContent(s) == Trim(CollapseWhitespace(s))

\* main.js: article.textContent.length > 200
MinTextLength_main == 200
\* part_000: article.textContent.length < 200
MinTextLength_part == 200

Null == [null |-> TRUE]

\* main.js: article && article.textContent.length > 200
Accepts_main(a) == a # Null /\ Len(a.textContent) > MinTextLength_main

\* part_000: the negation of  !article || article.textContent.length < 200
Accepts_part(a) == ~(a = Null \/ Len(a.textContent) < MinTextLength_part)

Accepts(v, a) == IF v = "main" THEN Accepts_main(a) ELSE Accepts_part(a)

\* the entry object scrapeUrl builds (both variants)
Entry(u, a, now) ==
    [ url |-> u,
      title |-> a.title,
      content |-> NormalizeContent(a.textContent),
      site_name |-> a.siteName,
      scraped_at |-> now ]

\* fs.writeFile in place of fs.appendFile: the file is replaced by the line
AppendFile_overwrite(f, d) == <<d>>

\* fs.appendFile(OUTPUT_FILE, JSON.stringify(data) + '\n'): the file with one
\* more line, the line being represented by the object it encodes
AppendFile(f, d) == Append(f, d)

---------------------------------------------------------------------------
(* Resource Gate (part_000) *)

BlockedTypes == {"image", "stylesheet", "font", "media", "websocket"}

ResourceTypes ==
    {"document", "stylesheet", "image", "media", "font", "script", "texttrack",
     "xhr", "fetch", "eventsource", "websocket", "manifest", "other"}

\* the handler with "websocket" missing from its list
GateDecision_noWebsocket(type) ==
    IF type \in {"image", "stylesheet", "font", "media"} THEN "abort" ELSE "continue"

\* the request handler of enableResourceBlocking
GateDecision(type) == IF type \in BlockedTypes THEN "abort" ELSE "continue"


---------------------------------------------------------------------------
(* Inputs: the lines of url.list and what the web serves *)

U_page == <<"h", ":", "/", "/", "a">>
U_four == <<"a", "b", "c", "d">>
U_png == <<"a", "/", "b", ".", "p", "n", "g">>
U_PNG == <<"a", "/", "b", ".", "P", "N", "G">>

\* the lines a url.list of the pipeline runs is made of: a blank line, a
\* padded url, a 4-character url, a lower-case and an upper-case image url
Lines ==
    { <<SPACE>>, <<SPACE>> \o U_page \o <<SPACE, TAB>>, U_four, U_png, U_PNG }

Sources == UNION { [1..n -> Lines] : n \in 0..MaxLines }

Fill(n) == [i \in 1..n |-> "x"]

\* a text of n characters with the piece p at its start, middle and end
Text(p, n) ==
    p \o Fill((n - 3 * Len(p)) \div 2) \o p
      \o Fill((n - 3 * Len(p)) - ((n - 3 * Len(p)) \div 2)) \o p

ArticleOf(text) == [title |-> "T", textContent |-> text, siteName |-> "null"]

\* what reader.parse() returns for the pages of the pipeline runs: no
\* article, or an article of 199, 200 or 201 characters with repeated, leading
\* and trailing whitespace
Articles ==
    {Null} \cup
    { ArticleOf(Text(<<SPACE, NL>>, n)) :
        n \in {MinTextLength_part - 1, MinTextLength_part, MinTextLength_part + 1} }

\* a line the output file holds from an earlier run
OldLine ==
    [ url |-> U_page, title |-> "old", content |-> <<"o">>,
      site_name |-> "null", scraped_at |-> 0 ]

NoPage ==
    [ open |-> FALSE, userAgent |-> FALSE, viewport |-> FALSE,
      interception |-> FALSE, handlers |-> 0, doc |-> Null ]

NoUrl == <<>>

---------------------------------------------------------------------------
(* Initial state *)

Blank ==
    /\ pc = "launch"
    /\ browser = "none"
    /\ page = NoPage
    /\ TARGET_URLS = <<>>
    /\ pos = 0
    /\ url = NoUrl
    /\ html = Null
    /\ article = Null
    /\ data = Null
    /\ console = <<>>
    /\ calls = <<>>
    /\ error = "none"
    /\ request = Null
    /\ nreq = 0
    /\ outcomes = <<>>
    /\ clock = 1

Init ==
    /\ variant \in {"main", "part"}
    /\ source \in Sources
    /\ prior \in {<<>>, <<OldLine>>}
    /\ file = prior
    /\ Blank


---------------------------------------------------------------------------
(* Steps of the main async function and of scrapeUrl.  pc names the call   *)
(* being awaited; the synchronous code after an await belongs to the step  *)
(* that completes it.                                                      *)

\* the code issues the awaited call op
Await(op) == pc' = op /\ calls' = Append(calls, op)

Log(msg, arg) == console' = Append(console, [msg |-> msg, arg |-> arg])

\* an exception leaves the main async function: the promise is rejected
\* with nobody handling it and the rest of the function never runs
Unhandled(e) == pc' = "crashed" /\ error' = e

NonEmpty(l) == Len(l) > 0

\* puppeteer.launch
launch ==
    /\ pc = "launch"
    /\ browser' = "open"
    /\ IF variant = "main"
       THEN Await("loadTargetUrls") /\ Log("Beginning scraping job...", <<>>)
       ELSE Await("newPage") /\ UNCHANGED console
    /\ UNCHANGED << variant, source, prior, file, page, TARGET_URLS, pos, url,
                    html, article, data, error, request, nreq, outcomes, clock >>

launch_throws ==
    /\ pc = "launch"
    /\ Unhandled("launch")
    /\ UNCHANGED << variant, source, prior, file, browser, page, TARGET_URLS, pos,
                    url, html, article, data, console, calls, request, nreq,
                    outcomes, clock >>

\* main.js: loadTargetUrls, split / trim / filter
loadTargetUrls ==
    /\ pc = "loadTargetUrls"
    /\ TARGET_URLS' = SelectSeq([i \in DOMAIN source |-> Trim(source[i])], NonEmpty)
    /\ Log("Loaded URLs", <<>>)
    /\ pc' = "for"
    /\ UNCHANGED << variant, source, prior, file, browser, page, pos, url, html,
                    article, data, calls, error, request, nreq, outcomes, clock >>

\* main.js: url.list cannot be read
loadTargetUrls_throws ==
    /\ pc = "loadTargetUrls"
    /\ Unhandled("readFile")
    /\ UNCHANGED << variant, source, prior, file, browser, page, TARGET_URLS, pos,
                    url, html, article, data, console, calls, request, nreq,
                    outcomes, clock >>

\* browser.newPage: per url in main.js, once before the loop in part_000
newPage ==
    /\ pc = "newPage"
    /\ page' = [NoPage EXCEPT !.open = TRUE]
    /\ Await("setUserAgent")
    /\ UNCHANGED << variant, source, prior, file, browser, TARGET_URLS, pos, url,
                    html, article, data, console, error, request, nreq, outcomes,
                    clock >>

\* in main.js the call is before the try block, in part_000 before the loop
newPage_throws ==
    /\ pc = "newPage"
    /\ Unhandled("newPage")
    /\ UNCHANGED << variant, source, prior, file, browser, page, TARGET_URLS, pos,
                    url, html, article, data, console, calls, request, nreq,
                    outcomes, clock >>

\* page.setUserAgent(USER_AGENT)
setUserAgent ==
    /\ pc = "setUserAgent"
    /\ page' = [page EXCEPT !.userAgent = TRUE]
    /\ IF variant = "main"
       THEN Await("setViewport")
       ELSE Await("setRequestInterception")
    /\ UNCHANGED << variant, source, prior, file, browser, TARGET_URLS, pos, url,
                    html, article, data, console, error, request, nreq, outcomes,
                    clock >>

\* inside the try block in main.js, before the loop in part_000
setUserAgent_throws ==
    /\ pc = "setUserAgent"
    /\ IF variant = "main"
       THEN pc' = "catch" /\ error' = "setUserAgent"
       ELSE Unhandled("setUserAgent")
    /\ UNCHANGED << variant, source, prior, file, browser, page, TARGET_URLS, pos,
                    url, html, article, data, console, calls, request, nreq,
                    outcomes, clock >>

\* main.js: page.setViewport, then the log line and the call of page.goto
setViewport ==
    /\ pc = "setViewport"
    /\ page' = [page EXCEPT !.viewport = TRUE]
    /\ Log("[INFO] Navigating to", url)
    /\ Await("goto")
    /\ UNCHANGED << variant, source, prior, file, browser, TARGET_URLS, pos, url,
                    html, article, data, error, request, nreq, outcomes, clock >>

setViewport_throws ==
    /\ pc = "setViewport"
    /\ pc' = "catch"
    /\ error' = "setViewport"
    /\ UNCHANGED << variant, source, prior, file, browser, page, TARGET_URLS, pos,
                    url, html, article, data, console, calls, request, nreq,
                    outcomes, clock >>

\* enableResourceBlocking called a second time on the same Page: a second
\* request handler is registered
enableResourceBlocking_twice ==
    /\ pc = "setRequestInterception"
    /\ page' = [page EXCEPT !.interception = TRUE, !.handlers = @ + 2]
    /\ Log("Starting scraper", <<>>)
    /\ pc' = "for"
    /\ UNCHANGED << variant, source, prior, file, browser, TARGET_URLS, pos, url,
                    html, article, data, calls, error, request, nreq, outcomes,
                    clock >>

\* part_000: enableResourceBlocking, then readline.createInterface and the
\* first log line
enableResourceBlocking ==
    /\ pc = "setRequestInterception"
    /\ page' = [page EXCEPT !.interception = TRUE, !.handlers = @ + 1]
    /\ Log("Starting scraper", <<>>)
    /\ pc' = "for"
    /\ UNCHANGED << variant, source, prior, file, browser, TARGET_URLS, pos, url,
                    html, article, data, calls, error, request, nreq, outcomes,
                    clock >>

enableResourceBlocking_throws ==
    /\ pc = "setRequestInterception"
    /\ Unhandled("setRequestInterception")
    /\ UNCHANGED << variant, source, prior, file, browser, page, TARGET_URLS, pos,
                    url, html, article, data, console, calls, request, nreq,
                    outcomes, clock >>


---------------------------------------------------------------------------
(* The main loop *)

\* the items the loop iterates over: TARGET_URLS in main.js, the lines
\* readline yields in part_000
Items == IF variant = "main" THEN TARGET_URLS ELSE source

\* the line used as it was read, without trim()
CleanUrl_noTrim(item) == item

\* part_000: url.trim(); main.js trimmed the lines when loading them
CleanUrl(item) == IF variant = "main" THEN item ELSE Trim(item)

SkipReason(v, u) == IF v = "main" THEN SkipReason_main(u) ELSE SkipReason_part(u)

\* the loop takes the next item and calls scrapeUrl; the locals of the
\* iteration and of the call are fresh
for_next ==
    /\ pc = "for"
    /\ pos < Len(Items)
    /\ CleanUrl(Items[pos + 1]) # <<>>
    /\ pos' = pos + 1
    /\ url' = CleanUrl(Items[pos + 1])
    /\ console' = <<>>
    /\ calls' = <<>>
    /\ html' = Null
    /\ article' = Null
    /\ data' = Null
    /\ pc' = "scrapeUrl"
    /\ UNCHANGED << variant, source, prior, file, browser, page, TARGET_URLS,
                    error, request, nreq, outcomes, clock >>

\* part_000: if (!cleanUrl) continue
for_blank ==
    /\ pc = "for"
    /\ pos < Len(Items)
    /\ CleanUrl(Items[pos + 1]) = <<>>
    /\ pos' = pos + 1
    /\ UNCHANGED << variant, source, prior, file, pc, browser, page, TARGET_URLS,
                    url, html, article, data, console, calls, error, request,
                    nreq, outcomes, clock >>

\* the source is exhausted: browser.close() is called
for_end ==
    /\ pc = "for"
    /\ pos = Len(Items)
    /\ Await("browserClose")
    /\ UNCHANGED << variant, source, prior, file, browser, page, TARGET_URLS, pos,
                    url, html, article, data, console, error, request, nreq,
                    outcomes, clock >>

\* scrapeUrl returns null at one of its early returns; main.js logs the reason
scrapeUrl_skip ==
    /\ pc = "scrapeUrl"
    /\ SkipReason(variant, url) # "none"
    /\ data' = Null
    /\ outcomes' = Append(outcomes, "Filtered")
    /\ IF variant = "main"
       THEN Log(CASE SkipReason_main(url) = "image" -> "Skipping image URL"
                  [] SkipReason_main(url) = "pdf" -> "Skipping PDF URL"
                  [] OTHER -> "Skipping invalid URL", url)
       ELSE UNCHANGED console
    /\ pc' = "data"
    /\ UNCHANGED << variant, source, prior, file, browser, page, TARGET_URLS, pos,
                    url, html, article, calls, error, request, nreq, clock >>

\* scrapeUrl passes its early returns: main.js opens a Page, part_000 logs
\* and navigates the shared Page
scrapeUrl_proceed ==
    /\ pc = "scrapeUrl"
    /\ SkipReason(variant, url) = "none"
    /\ IF variant = "main"
       THEN Await("newPage") /\ UNCHANGED console
       ELSE Await("goto") /\ Log("Navigating", url)
    /\ UNCHANGED << variant, source, prior, file, browser, page, TARGET_URLS, pos,
                    url, html, article, data, error, request, nreq, outcomes,
                    clock >>

\* while page.goto is in flight the page issues a sub-resource request; with
\* interception enabled every registered handler is called with it
intercept ==
    /\ pc = "goto"
    /\ nreq < MaxRequests
    /\ \E type \in ResourceTypes :
          request' =
            [ type |-> type,
              intercepted |-> page.interception,
              decisions |-> IF page.interception
                            THEN [h \in 1..page.handlers |-> GateDecision(type)]
                            ELSE <<>> ]
    /\ nreq' = nreq + 1
    /\ UNCHANGED << variant, source, prior, file, pc, browser, page, TARGET_URLS,
                    pos, url, html, article, data, console, calls, error,
                    outcomes, clock >>

\* page.goto resolves: the page holds the document the url rendered to
goto ==
    /\ pc = "goto"
    /\ \E a \in Articles : page' = [page EXCEPT !.doc = [of |-> pos, article |-> a]]
    /\ request' = Null
    /\ nreq' = 0
    /\ Await("content")
    /\ UNCHANGED << variant, source, prior, file, browser, TARGET_URLS, pos, url,
                    html, article, data, console, error, outcomes, clock >>

\* the rejection of page.goto swallowed: scrapeUrl goes on to page.content()
goto_throws_ignored ==
    /\ pc = "goto"
    /\ request' = Null
    /\ nreq' = 0
    /\ Await("content")
    /\ UNCHANGED << variant, source, prior, file, browser, page, TARGET_URLS, pos,
                    url, html, article, data, console, error, outcomes, clock >>

\* page.goto rejects: timeout or any other navigation error
goto_throws ==
    /\ pc = "goto"
    /\ error' \in {"TimeoutError", "goto"}
    /\ request' = Null
    /\ nreq' = 0
    /\ pc' = "catch"
    /\ UNCHANGED << variant, source, prior, file, browser, page, TARGET_URLS, pos,
                    url, html, article, data, console, calls, outcomes, clock >>

\* page.content() resolves with the live document
content ==
    /\ pc = "content"
    /\ html' = page.doc
    /\ pc' = "parse"
    /\ UNCHANGED << variant, source, prior, file, browser, page, TARGET_URLS, pos,
                    url, article, data, console, calls, error, request, nreq,
                    outcomes, clock >>

content_throws ==
    /\ pc = "content"
    /\ error' = "content"
    /\ pc' = "catch"
    /\ UNCHANGED << variant, source, prior, file, browser, page, TARGET_URLS, pos,
                    url, html, article, data, console, calls, request, nreq,
                    outcomes, clock >>

\* new JSDOM(html, {url}); new Readability(...).parse()
parse ==
    /\ pc = "parse"
    /\ article' = html.article
    /\ pc' = "extract"
    /\ UNCHANGED << variant, source, prior, file, browser, page, TARGET_URLS, pos,
                    url, html, data, console, calls, error, request, nreq,
                    outcomes, clock >>

parse_throws ==
    /\ pc = "parse"
    /\ error' = "parse"
    /\ pc' = "catch"
    /\ UNCHANGED << variant, source, prior, file, browser, page, TARGET_URLS, pos,
                    url, html, article, data, console, calls, request, nreq,
                    outcomes, clock >>

\* scrapeUrl without the finally block: it returns with its Page left open
Return_noFinally == pc' = "data" /\ UNCHANGED calls

\* where scrapeUrl goes when it returns: main.js runs its finally block
\* (page.close()), part_000 is back in the loop
Return == IF variant = "main" THEN Await("pageClose") ELSE pc' = "data" /\ UNCHANGED calls

\* the length test on the article and the entry built from it
extract ==
    /\ pc = "extract"
    /\ IF Accepts(variant, article)
       THEN /\ data' = Entry(url, article, clock)
            /\ UNCHANGED << console, outcomes >>
       ELSE /\ data' = Null
            /\ Log(IF variant = "main" THEN "Content too short or unparseable"
                                       ELSE "Too short", url)
            /\ outcomes' = Append(outcomes, "ExtractFailed")
    /\ Return
    /\ UNCHANGED << variant, source, prior, file, browser, page, TARGET_URLS, pos,
                    url, html, article, error, request, nreq, clock >>

\* the catch block of scrapeUrl
catch ==
    /\ pc = "catch"
    /\ Log(IF variant = "main" THEN "Failed to scrape" ELSE "Failed", <<url, error>>)
    /\ data' = Null
    /\ outcomes' = Append(outcomes, IF error = "parse" THEN "ExtractFailed"
                                                        ELSE "FetchFailed")
    /\ error' = "none"
    /\ Return
    /\ UNCHANGED << variant, source, prior, file, browser, page, TARGET_URLS, pos,
                    url, html, article, request, nreq, clock >>

\* main.js: page.close() in the finally block resolves, scrapeUrl returns
pageClose ==
    /\ pc = "pageClose"
    /\ page' = NoPage
    /\ pc' = "data"
    /\ UNCHANGED << variant, source, prior, file, browser, TARGET_URLS, pos, url,
                    html, article, data, console, calls, error, request, nreq,
                    outcomes, clock >>

\* main.js: page.close() rejects inside finally: the exception replaces the
\* value being returned and leaves scrapeUrl
pageClose_throws ==
    /\ pc = "pageClose"
    /\ data' = Null
    /\ Unhandled("pageClose")
    /\ UNCHANGED << variant, source, prior, file, browser, page, TARGET_URLS, pos,
                    url, html, article, console, calls, request, nreq, outcomes,
                    clock >>

\* the delay placed inside if (data): a url without a Record is followed by
\* the next url at once
if_data_delayOnlyAfterSave ==
    /\ pc = "data"
    /\ IF data # Null
       THEN Await("appendFile")
       ELSE pc' = "for" /\ UNCHANGED calls
    /\ UNCHANGED << variant, source, prior, file, browser, page, TARGET_URLS, pos,
                    url, html, article, data, console, error, request, nreq,
                    outcomes, clock >>

\* the append not awaited: the loop goes on to the delay and the next url
\* while the write of the line is still pending
if_data_appendNotAwaited ==
    /\ pc = "data"
    /\ pc' = "delay"
    /\ calls' = IF data # Null THEN Append(calls, "appendFile") ELSE calls
    /\ UNCHANGED << variant, source, prior, file, browser, page, TARGET_URLS, pos,
                    url, html, article, data, console, error, request, nreq,
                    outcomes, clock >>

\* if (data): append the line, else go to the delay
if_data ==
    /\ pc = "data"
    /\ IF data # Null
       THEN Await("appendFile")
       ELSE pc' = "delay" /\ UNCHANGED calls
    /\ UNCHANGED << variant, source, prior, file, browser, page, TARGET_URLS, pos,
                    url, html, article, data, console, error, request, nreq,
                    outcomes, clock >>

\* fs.appendFile / fs.appendFileSync, then the Saved line
appendFile ==
    /\ pc = "appendFile"
    /\ file' = AppendFile(file, data)
    /\ Log("Saved", data.title)
    /\ outcomes' = Append(outcomes, "Persisted")
    /\ pc' = "delay"
    /\ UNCHANGED << variant, source, prior, browser, page, TARGET_URLS, pos, url,
                    html, article, data, calls, error, request, nreq, clock >>

\* the write fails: nothing in either loop catches it
appendFile_throws ==
    /\ pc = "appendFile"
    /\ Unhandled("appendFile")
    /\ UNCHANGED << variant, source, prior, file, browser, page, TARGET_URLS, pos,
                    url, html, article, data, console, calls, request, nreq,
                    outcomes, clock >>

\* the random delay between two urls
delay ==
    /\ pc = "delay"
    /\ clock' = clock + 1
    /\ pc' = "for"
    /\ UNCHANGED << variant, source, prior, file, browser, page, TARGET_URLS, pos,
                    url, html, article, data, console, calls, error, request,
                    nreq, outcomes >>

\* browser.close() and the last log line
browserClose ==
    /\ pc = "browserClose"
    /\ browser' = "closed"
    /\ Log("Scraping finished.", <<>>)
    /\ pc' = "done"
    /\ UNCHANGED << variant, source, prior, file, page, TARGET_URLS, pos, url,
                    html, article, data, calls, error, request, nreq, outcomes,
                    clock >>

browserClose_throws ==
    /\ pc = "browserClose"
    /\ Unhandled("browserClose")
    /\ UNCHANGED << variant, source, prior, file, browser, page, TARGET_URLS, pos,
                    url, html, article, data, console, calls, request, nreq,
                    outcomes, clock >>

Next ==
    \/ launch \/ launch_throws
    \/ loadTargetUrls \/ loadTargetUrls_throws
    \/ newPage \/ newPage_throws
    \/ setUserAgent \/ setUserAgent_throws
    \/ setViewport \/ setViewport_throws
    \/ enableResourceBlocking \/ enableResourceBlocking_throws
    \/ for_next \/ for_blank \/ for_end
    \/ scrapeUrl_skip \/ scrapeUrl_proceed
    \/ intercept \/ goto \/ goto_throws
    \/ content \/ content_throws
    \/ parse \/ parse_throws
    \/ extract \/ catch
    \/ pageClose \/ pageClose_throws
    \/ if_data
    \/ appendFile \/ appendFile_throws
    \/ delay
    \/ browserClose \/ browserClose_throws

Spec == Init /\ [][Next]_vars


\* every awaited call settles and the event loop runs the continuation of a
\* settled promise: a step that can be taken is eventually taken
SpecLive == Init /\ [][Next]_vars /\ WF_vars(Next)

---------------------------------------------------------------------------
(* The URL Filter on a wide range of urls: runs over a url.list of one    *)
(* line.                                                                   *)

UpperChar(c) ==
    IF \E i \in DOMAIN LowerLetters : LowerLetters[i] = c
    THEN UpperLetters[CHOOSE i \in DOMAIN LowerLetters : LowerLetters[i] = c]
    ELSE c

\* an extension in lower case, in upper case and in mixed case
CaseForms(e) ==
    { e,
      [i \in DOMAIN e |-> UpperChar(e[i])],
      [i \in DOMAIN e |-> IF i % 2 = 0 THEN UpperChar(e[i]) ELSE e[i]] }

MediaExts == {Ext_png, Ext_jpg, Ext_jpeg, Ext_svg, Ext_gif, Ext_pdf}

\* endings that are no media extension
OtherEnds == { <<".", "p", "n">>, <<"p", "n", "g">>, <<".", "p", "n", "g", "x">> }

Stems == { <<>>, <<"a", "/", "b">> }

Tails == { <<>>, <<SLASH>>, <<SLASH, SLASH>> }

FilterLines ==
    { stem \o e \o tail :
        stem \in Stems,
        e \in (UNION { CaseForms(x) : x \in MediaExts }) \cup OtherEnds,
        tail \in Tails }
    \cup { <<"a">>, <<"a", "b">>, <<"a", "b", "c">>, U_four, U_page, <<SPACE, TAB>> }

InitFilter ==
    /\ variant \in {"main", "part"}
    /\ source \in { <<l>> : l \in FilterLines }
    /\ prior = <<>>
    /\ file = prior
    /\ Blank

SpecFilter == InitFilter /\ [][Next]_vars

---------------------------------------------------------------------------
(* The Record Normalizer on a wide range of texts: runs from the point     *)
(* where page.content() has returned the document of the only url.         *)

TextAlphabet == {"x", SPACE, TAB, NL}

Pieces == UNION { [1..n -> TextAlphabet] : n \in 0..MaxPiece }

Texts ==
    { Text(p, n) :
        p \in Pieces,
        n \in {MinTextLength_part - 1, MinTextLength_part, MinTextLength_part + 1} }

PaddedPage == <<SPACE>> \o U_page \o <<SPACE, TAB>>

InitNorm ==
    /\ variant \in {"main", "part"}
    /\ source = <<PaddedPage>>
    /\ prior = <<>>
    /\ file = prior
    /\ pc = "parse"
    /\ browser = "open"
    /\ \E t \in Texts :
         /\ page = [ open |-> TRUE, userAgent |-> TRUE,
                     viewport |-> (variant = "main"),
                     interception |-> (variant = "part"),
                     handlers |-> IF variant = "part" THEN 1 ELSE 0,
                     doc |-> [of |-> 1, article |-> ArticleOf(t)] ]
         /\ html = [of |-> 1, article |-> ArticleOf(t)]
    /\ TARGET_URLS = IF variant = "main" THEN <<U_page>> ELSE <<>>
    /\ pos = 1
    /\ url = U_page
    /\ article = Null
    /\ data = Null
    /\ console = << [ msg |-> IF variant = "main" THEN "[INFO] Navigating to"
                                                   ELSE "Navigating",
                      arg |-> U_page ] >>
    /\ calls = IF variant = "main"
               THEN <<"newPage", "setUserAgent", "setViewport", "goto", "content">>
               ELSE <<"goto", "content">>
    /\ error = "none"
    /\ request = Null
    /\ nreq = 0
    /\ outcomes = <<>>
    /\ clock = 1

NextNorm ==
    \/ parse \/ parse_throws
    \/ extract \/ catch
    \/ pageClose \/ pageClose_throws
    \/ if_data
    \/ appendFile \/ appendFile_throws
    \/ delay
    \/ for_end
    \/ browserClose \/ browserClose_throws

SpecNorm == InitNorm /\ [][NextNorm]_vars


---------------------------------------------------------------------------
(* Properties *)

Range(s) == { s[i] : i \in DOMAIN s }

Called(op) == op \in Range(calls)

Last(s) == s[Len(s)]

IsPrefix(s, t) == Len(s) <= Len(t) /\ SubSeq(t, 1, Len(s)) = s

Count(s, x) == Cardinality({ i \in DOMAIN s : s[i] = x })

\* a url has been taken from the source and the loop has not ended
InIteration == url # NoUrl /\ ~Called("browserClose")

\* C1: an exception raised while one url is being processed is caught at the
\* per-url boundary: it never ends the run
C1_ExceptionStaysPerUrl == InIteration => pc # "crashed"

\* the url ends in one of the six extensions, in any case, optionally
\* followed by one slash
EndsInMediaExt(u) ==
    LET v == IF u # <<>> /\ Last(u) = SLASH THEN SubSeq(u, 1, Len(u) - 1) ELSE u
    IN  \E e \in MediaExts : EndsWith(FoldCase(v), e)

\* C2: for a url ending in .png, .jpg, .jpeg, .svg, .gif or .pdf (any case,
\* one optional trailing slash) scrapeUrl returns null, page.goto is never
\* called, main.js opens no Page, and nothing is appended
C2_MediaUrlNeverFetched ==
    (InIteration /\ EndsInMediaExt(url)) =>
        /\ ~Called("goto")
        /\ ~Called("newPage")
        /\ ~Called("appendFile")
        /\ data = Null

\* C3: for a page fetched successfully, scrapeUrl returns a Record if and only
\* if the article is non-null and its textContent has at least 200 characters
C3_RecordIffAtLeast200 ==
    (pc \in {"pageClose", "data", "appendFile", "delay"} /\ html # Null) =>
        ((data # Null) <=> (article # Null /\ Len(article.textContent) >= 200))

\* page.goto failed for the current url: the catch block logged it
NavigationFailed ==
    \E i \in DOMAIN console :
        /\ console[i].msg \in {"Failed to scrape", "Failed"}
        /\ console[i].arg[2] \in {"TimeoutError", "goto"}

\* C4: when page.goto fails the url contributes no Record and the loop
\* continues with the next url: the run is not ended
C4_NavigationFailureIsLocal ==
    (InIteration /\ NavigationFailed) =>
        /\ data = Null
        /\ ~Called("appendFile")
        /\ pc # "crashed"

\* C5: the output file is its content at the start of the run followed by
\* one line per url that reached Persisted; a step changes the file only by
\* adding, at its end, the line of the url that becomes Persisted
C5_AppendOnlyExactCount ==
    /\ [](/\ IsPrefix(prior, file)
          /\ Len(file) = Len(prior) + Count(outcomes, "Persisted"))
    /\ [][ /\ IsPrefix(file, file')
           /\ file' # file =>
                /\ Len(file') = Len(file) + 1
                /\ Last(file').url = url
                /\ outcomes' = Append(outcomes, "Persisted") ]_vars

C5_Witness ==
    /\ prior # <<>>
    /\ Len(file) = Len(prior) + 1
    /\ Len(outcomes) = 2
    /\ outcomes[1] # "Persisted"
    /\ pc = "done"

\* no two adjacent whitespace characters, no whitespace at either end
CleanContent(c) ==
    /\ c # <<>> => (c[1] \notin WhiteSpace /\ Last(c) \notin WhiteSpace)
    /\ \A i \in 1..(Len(c) - 1) : ~(c[i] \in WhiteSpace /\ c[i + 1] \in WhiteSpace)

\* the lines this run has appended
NewLines == { file[i] : i \in (Len(prior) + 1)..Len(file) }

\* C6: every Record scrapeUrl returns and every Record appended has a content
\* without a run of two or more whitespace characters and without leading or
\* trailing whitespace
C6_ContentIsNormalized ==
    /\ data # Null => CleanContent(data.content)
    /\ \A r \in NewLines : CleanContent(r.content)

\* a Record was appended whose article began with whitespace and held a run
\* of two whitespace characters
C6_Witness ==
    /\ NewLines # {}
    /\ article # Null
    /\ article.textContent[1] \in WhiteSpace
    /\ article.textContent[2] \in WhiteSpace
    /\ Last(article.textContent) \in WhiteSpace

Logged(msgs) == \E i \in DOMAIN console : console[i].msg \in msgs

\* C7: a url that finishes its iteration has a log line for its outcome: the
\* skip reason, the failure, or Saved with the title
C7_EveryOutcomeLogged ==
    pc = "delay" =>
        CASE Last(outcomes) = "Filtered" ->
                Logged({"Skipping image URL", "Skipping PDF URL", "Skipping invalid URL"})
          [] Last(outcomes) = "FetchFailed" -> Logged({"Failed to scrape", "Failed"})
          [] Last(outcomes) = "ExtractFailed" ->
                Logged({"Content too short or unparseable", "Too short",
                        "Failed to scrape", "Failed"})
          [] OTHER -> \E i \in DOMAIN console :
                          console[i].msg = "Saved" /\ console[i].arg = data.title

\* C8: a Page on which page.goto is in flight has request interception
\* enabled and the abort/continue handler registered
C8_GateInstalledBeforeGoto ==
    pc = "goto" => (page.interception /\ page.handlers >= 1)

\* C9: the handler aborts a request if and only if its type is image,
\* stylesheet, font, media or websocket, and lets every other continue;
\* document, script, xhr and fetch are never aborted
C9_GateAbortsExactlyBlocked ==
    (request # Null /\ request.intercepted) =>
        \A i \in DOMAIN request.decisions :
            /\ request.decisions[i] \in {"abort", "continue"}
            /\ request.decisions[i] = "abort" <=>
                 request.type \in {"image", "stylesheet", "font", "media", "websocket"}
            /\ request.type \in {"document", "script", "xhr", "fetch"} =>
                 request.decisions[i] = "continue"

C9_Witness ==
    /\ request # Null
    /\ request.intercepted
    /\ request.type = "websocket"
    /\ request.decisions = <<"abort">>

\* C10: a url shorter than 3 characters (main.js) or 5 characters (part_000)
\* is skipped: scrapeUrl returns null, calls neither page.goto nor
\* browser.newPage, and nothing is appended
C10_ShortUrlSkipped ==
    (InIteration /\ Len(url) < (IF variant = "main" THEN 3 ELSE 5)) =>
        /\ ~Called("goto")
        /\ ~Called("newPage")
        /\ ~Called("appendFile")
        /\ data = Null
        /\ pc # "scrapeUrl" => (pc = "data" \/ pc = "delay" \/ pc = "for")
        /\ pc # "scrapeUrl" => Last(outcomes) = "Filtered"

\* part_000 has skipped a url of 4 characters that is no media url
C10_Witness ==
    /\ variant = "part"
    /\ url = U_four
    /\ pc = "delay"
    /\ Last(outcomes) = "Filtered"
    /\ file = prior


\* no two adjacent whitespace characters
NoRepeatedWhitespace(t) ==
    \A i \in 1..(Len(t) - 1) : ~(t[i] \in WhiteSpace /\ t[i + 1] \in WhiteSpace)

\* the text with every whitespace character replaced by a space
Spaced(t) == [i \in DOMAIN t |-> IF t[i] \in WhiteSpace THEN SPACE ELSE t[i]]

\* C11 as stated: the normalization of a text without repeated whitespace is
\* that text, trimmed; and normalizing an already normalized content changes
\* nothing
C11_IdempotentAsStated ==
    data # Null =>
        /\ NormalizeContent(data.content) = data.content
        /\ NoRepeatedWhitespace(article.textContent) =>
              data.content = Trim(article.textContent)

\* C11 amended: normalizing an already normalized content changes nothing;
\* the normalization of a text without repeated whitespace is that text
\* with each whitespace character replaced by a space, trimmed, so it is the
\* trimmed text itself when the only whitespace of the text is the space
C11_Idempotent ==
    data # Null =>
        /\ NormalizeContent(data.content) = data.content
        /\ NoRepeatedWhitespace(article.textContent) =>
              /\ data.content = Trim(Spaced(article.textContent))
              /\ Range(article.textContent) \cap WhiteSpace \subseteq {SPACE} =>
                    data.content = Trim(article.textContent)

\* a Record built from a text whose whitespace is single spaces, one of them
\* leading, one inside and one trailing
C11_Witness ==
    /\ data # Null
    /\ NoRepeatedWhitespace(article.textContent)
    /\ article.textContent[1] = SPACE
    /\ Last(article.textContent) = SPACE
    /\ SPACE \in Range(data.content)


\* the candidate urls of the source: its lines trimmed, blank ones dropped
Candidates == SelectSeq([i \in DOMAIN source |-> Trim(source[i])], NonEmpty)

\* C12: once the source is open and the loop entered, every url of the source
\* reaches a terminal outcome and the loop ends
C12_EveryUrlReachesTerminal ==
    (pc = "for") ~> (Called("browserClose") /\ Len(outcomes) = Len(Candidates))


\* number of candidate urls the loop has taken so far
Taken == Cardinality({ i \in 1..pos : Trim(Items[i]) # <<>> })

\* number of pacer delays executed so far
Delays == clock - 1

\* C13: every url that reached a terminal outcome is followed by exactly one
\* pacer delay before the next url is taken: when a url is taken, and when
\* the loop ends, there has been one delay and one outcome per earlier url
C13_OneDelayAfterEveryUrl ==
    /\ pc \in {"for", "browserClose", "done"} =>
          (Delays = Taken /\ Len(outcomes) = Taken)
    /\ (InIteration /\ pc \notin {"for", "crashed"}) => Delays = Taken - 1
    /\ pc = "delay" => Len(outcomes) = Taken

\* the second url is taken after the first was filtered and one delay was made
C13_Witness ==
    /\ pc = "scrapeUrl"
    /\ Taken = 2
    /\ Delays = 1
    /\ outcomes = <<"Filtered">>


\* the run has ended: normally, or by an exception nobody handles
RunEnded == pc \in {"done", "crashed"}

\* C14: the browser session is open while urls are processed, nothing is done
\* after it is closed, and no run ends with the session still open
C14_SessionClosedAtEnd ==
    /\ InIteration => browser = "open"
    /\ browser = "closed" => pc = "done"
    /\ RunEnded => browser # "open"


\* C15: one url is fetched at a time: while page.goto is in flight for a url
\* it is the only navigation of that url, and the outcome, the append and the
\* pacer delay of every earlier url are complete
C15_OneFetchAtATime ==
    pc = "goto" =>
        /\ Count(calls, "goto") = 1
        /\ Len(outcomes) = Taken - 1
        /\ Delays = Taken - 1
        /\ Len(file) = Len(prior) + Count(outcomes, "Persisted")

\* the second url is being navigated after the first was persisted
C15_Witness ==
    /\ pc = "goto"
    /\ Taken = 2
    /\ outcomes = <<"Persisted">>
    /\ Len(file) = Len(prior) + 1


\* the position, among the urls processed, of the j-th one that was persisted
NthPersisted(j) ==
    CHOOSE i \in DOMAIN outcomes :
        /\ outcomes[i] = "Persisted"
        /\ Cardinality({ k \in 1..i : outcomes[k] = "Persisted" }) = j

\* C16: the k-th url processed is the k-th non-blank line of the source,
\* trimmed; the lines appended are those of the persisted urls in the order
\* of the source; a url that occurs twice is processed twice
C16_SourceOrder ==
    /\ Taken <= Len(Candidates)
    /\ InIteration => (Taken \in DOMAIN Candidates /\ url = Candidates[Taken])
    /\ \A j \in 1..(Len(file) - Len(prior)) :
          file[Len(prior) + j].url = Candidates[NthPersisted(j)]

\* a source holding the same url twice, after a blank line in between or not:
\* both occurrences were processed and persisted, one line each
C16_Witness ==
    /\ Len(Candidates) = 2
    /\ Candidates[1] = Candidates[2]
    /\ source[1] # Candidates[1]
    /\ outcomes = <<"Persisted", "Persisted">>
    /\ Len(file) = Len(prior) + 2
    /\ file[Len(prior) + 1].url = file[Len(prior) + 2].url
    /\ file[Len(prior) + 1].scraped_at < file[Len(prior) + 2].scraped_at


\* C17: a Page on which page.goto is in flight has had its User-Agent and its
\* viewport set
C17_AgentAndViewportBeforeGoto ==
    pc = "goto" => (page.open /\ page.userAgent /\ page.viewport)


\* C18 (part_000), during the iteration of a url: the html read is the
\* document its own page.goto loaded, a Record is built from that html, and after a failed
\* navigation page.content() is not called, so the document an earlier url
\* left on the shared Page is never used
C18_NoStaleSnapshot ==
    (variant = "part" /\ InIteration /\ pc # "for") =>
        /\ Called("content") => (page.doc # Null /\ page.doc.of = pos)
        /\ html # Null => html.of = pos
        /\ data # Null =>
              /\ html # Null
              /\ data.url = url
              /\ data.content = NormalizeContent(html.article.textContent)
        /\ NavigationFailed =>
              (~Called("content") /\ html = Null /\ data = Null)

\* the shared Page still holds the document of the first url after the
\* navigation to the second one failed, and no line was written for it
C18_Witness ==
    /\ variant = "part"
    /\ pc = "delay"
    /\ NavigationFailed
    /\ page.doc # Null
    /\ page.doc.of < pos
    /\ outcomes = <<"Persisted", "FetchFailed">>
    /\ Len(file) = Len(prior) + 1


\* C19 (main.js): outside scrapeUrl's try block no Page is open, so a Page is
\* opened only when none is open and none is left when the loop ends; a url
\* that opened a Page has had page.close() called when scrapeUrl returns; a
\* filtered url opens none; a Page stays open only if page.close() itself
\* rejected
C19_PageClosedOnEveryPath ==
    variant = "main" =>
        /\ pc \in {"launch", "loadTargetUrls", "for", "scrapeUrl", "newPage", "data",
                   "appendFile", "delay", "browserClose", "done"} => ~page.open
        /\ (pc \in {"data", "appendFile", "delay"} /\ Called("newPage")) =>
              Called("pageClose")
        /\ (pc \in {"data", "delay"} /\ Len(outcomes) = Taken
                                      /\ Last(outcomes) = "Filtered") =>
              (~Called("newPage") /\ ~Called("pageClose"))
        /\ (pc = "crashed" /\ page.open) => error = "pageClose"

\* main.js after a persisted url and a url whose processing threw: the Page
\* of each was closed
C19_Witness ==
    /\ variant = "main"
    /\ pc = "delay"
    /\ outcomes = <<"Persisted", "FetchFailed">>
    /\ calls = <<"newPage", "setUserAgent", "setViewport", "goto", "pageClose">>
    /\ ~page.open


\* C20 (part_000): the reused Page has one request handler, registered once
\* before the loop, and every intercepted request of every navigation gets
\* exactly one decision, abort or continue
C20_OneHandlerOneDecision ==
    variant = "part" =>
        /\ page.handlers <= 1
        /\ pc = "goto" => (page.interception /\ page.handlers = 1)
        /\ request # Null =>
              /\ request.intercepted
              /\ Len(request.decisions) = 1
              /\ request.decisions[1] \in {"abort", "continue"}

\* a request of the navigation to the second url got its single decision
C20_Witness ==
    /\ variant = "part"
    /\ pc = "goto"
    /\ Taken = 2
    /\ Len(outcomes) = 1
    /\ request # Null
    /\ request.decisions = <<"continue">>

===========================================================================
